---------------------------- MODULE Spec2Model ----------------------------
(***************************************************************************)
(* Model of the "blocks" universal proxy.                                  *)
(*                                                                         *)
(*   src/index.js          the full proxy  (/proxy?url=...,  called        *)
(*                         variant "index" below)                          *)
(*   src/unnamed/part_000  the simpler proxy (/proxy?target=..., called    *)
(*                         variant "part_000" below)                       *)
(*                                                                         *)
(* Text (URLs, header values, cookie strings) is a sequence of lexemes:    *)
(* every character the code or the URL / form-encoding algorithms treat    *)
(* specially is a lexeme of its own (":" "/" "?" "#" "=" "&" "," ";" " "   *)
(* "+" "%" "." and the hex digits of a percent escape), and a run of       *)
(* letters that no operation ever splits is one lexeme ("example").        *)
(* String operations of JavaScript are modelled on these sequences.        *)
(***************************************************************************)
EXTENDS Integers, Sequences, FiniteSets, TLC

VARIABLES
    variant,     \* which server file is running: "index" or "part_000"
    ALLOWLIST,   \* index.js:21: [configured, hosts]; not configured models null
    pc,          \* position of the current exchange
    req,         \* the inbound request object (req.url is rewritten in place)
    res,         \* the client-facing response (or the raw socket on upgrade)
    upstream,    \* what has been handed to / sent to the upstream
    upRes,       \* the upstream's response headers as the upstream sent them
    jar          \* the browser's recent_targets cookie and /go bookkeeping

vars == <<variant, ALLOWLIST, pc, req, res, upstream, upRes, jar>>

---------------------------------------------------------------------------
(* Bounds of the model.                                                    *)

\* most attributes an upstream cookie string carries after name=value
MaxAttrs == 3
\* most /go requests in one browsing session
MaxGo == 4

---------------------------------------------------------------------------
(* Strings as lexeme sequences.                                            *)

\* s.startsWith(p)
StartsWith(s, p) ==
    /\ Len(p) <= Len(s)
    /\ SubSeq(s, 1, Len(p)) = p

\* s.endsWith(p)
EndsWith(s, p) ==
    /\ Len(p) <= Len(s)
    /\ SubSeq(s, Len(s) - Len(p) + 1, Len(s)) = p

\* the part of s from index i on (s.slice(i-1) in JavaScript)
From(s, i) == SubSeq(s, i, Len(s))

\* first index >= from of a lexeme in set T, or Len(s)+1 when there is none
RECURSIVE FirstIn(_, _, _)
FirstIn(s, T, from) ==
    IF from > Len(s) THEN Len(s) + 1
    ELSE IF s[from] \in T THEN from
    ELSE FirstIn(s, T, from + 1)

\* ASCII lower-casing of one lexeme (only the lexemes with capitals used)
Lower(t) ==
    CASE t = "Domain"   -> "domain"
      [] t = "DOMAIN"   -> "domain"
      [] t = "SameSite" -> "samesite"
      [] t = "Secure"   -> "secure"
      [] t = "HTTPS"    -> "https"
      [] t = "Example"  -> "example"
      [] OTHER          -> t

LowerStr(s) == [i \in 1..Len(s) |-> Lower(s[i])]

RECURSIVE Flatten(_)
Flatten(ss) == IF ss = <<>> THEN <<>> ELSE Head(ss) \o Flatten(Tail(ss))

\* s.split(sep) for a one-lexeme separator: the pieces between separators
RECURSIVE Split(_, _)
Split(s, sep) ==
    LET i == FirstIn(s, {sep}, 1)
    IN  IF i > Len(s) THEN <<s>>
        ELSE <<SubSeq(s, 1, i - 1)>> \o Split(From(s, i + 1), sep)

\* parts.join(sep)
RECURSIVE Join(_, _)
Join(parts, sep) ==
    IF parts = <<>> THEN <<>>
    ELSE IF Len(parts) = 1 THEN parts[1]
    ELSE parts[1] \o <<sep>> \o Join(Tail(parts), sep)

\* arr.includes(x)
Includes(arr, x) == \E i \in 1..Len(arr) : arr[i] = x

\* arr.filter(Boolean) on an array of strings: drops the empty strings
RECURSIVE FilterNonEmpty(_)
FilterNonEmpty(arr) ==
    IF arr = <<>> THEN <<>>
    ELSE IF Head(arr) = <<>> THEN FilterNonEmpty(Tail(arr))
    ELSE <<Head(arr)>> \o FilterNonEmpty(Tail(arr))

\* arr.slice(0, n)
Slice0(arr, n) == SubSeq(arr, 1, IF Len(arr) < n THEN Len(arr) ELSE n)

---------------------------------------------------------------------------
(* encodeURIComponent and the query-string decoding of URLSearchParams.    *)

\* characters encodeURIComponent escapes, with their escapes
Escape(t) ==
    CASE t = ":" -> <<"%", "3", "A">>
      [] t = "/" -> <<"%", "2", "F">>
      [] t = "?" -> <<"%", "3", "F">>
      [] t = "#" -> <<"%", "2", "3">>
      [] t = "=" -> <<"%", "3", "D">>
      [] t = "&" -> <<"%", "2", "6">>
      [] t = "," -> <<"%", "2", "C">>
      [] t = ";" -> <<"%", "3", "B">>
      [] t = " " -> <<"%", "2", "0">>
      [] t = "+" -> <<"%", "2", "B">>
      [] t = "%" -> <<"%", "2", "5">>
      [] t = "@" -> <<"%", "4", "0">>
      [] t = "[" -> <<"%", "5", "B">>
      [] OTHER   -> <<t>>

Escaped == {":", "/", "?", "#", "=", "&", ",", ";", " ", "+", "%", "@", "["}

encodeURIComponent(s) == Flatten([i \in 1..Len(s) |-> Escape(s[i])])

\* percent-decoding: "%" followed by two hex digits is one character,
\* any other "%" stays as it is
RECURSIVE PercentDecode(_)
PercentDecode(s) ==
    IF s = <<>> THEN <<>>
    ELSE IF /\ s[1] = "%"
            /\ Len(s) >= 3
            /\ \E c \in Escaped : Escape(c) = SubSeq(s, 1, 3)
         THEN <<CHOOSE c \in Escaped : Escape(c) = SubSeq(s, 1, 3)>>
                  \o PercentDecode(From(s, 4))
         ELSE <<s[1]>> \o PercentDecode(Tail(s))

\* form decoding of one name or value: "+" is a space, then percent-decoding
FormDecode(s) ==
    PercentDecode([i \in 1..Len(s) |-> IF s[i] = "+" THEN " " ELSE s[i]])

\* URLSearchParams.get(name) on a query string (without its "?"):
\* [present, val] of the first pair whose decoded name is `name`
RECURSIVE FirstParam(_, _)
FirstParam(pairs, name) ==
    IF pairs = <<>> THEN [present |-> FALSE, val |-> <<>>]
    ELSE LET p  == Head(pairs)
             eq == FirstIn(p, {"="}, 1)
             n  == FormDecode(SubSeq(p, 1, eq - 1))
             v  == FormDecode(From(p, eq + 1))
         IN  IF p # <<>> /\ n = name
             THEN [present |-> TRUE, val |-> v]
             ELSE FirstParam(Tail(pairs), name)

searchParamsGet(query, name) == FirstParam(Split(query, "&"), name)

---------------------------------------------------------------------------
(* new URL(input [, base]): the URL parser and serializer on lexemes.      *)

SpecialSchemes == {"http", "https", "ws", "wss"}

\* lexemes that can be a scheme (a run of letters)
SchemeWords == {"http", "https", "HTTPS", "ws", "wss", "mailto", "data",
                "javascript"}

\* lexemes a host may not contain; any of them makes the parser fail
ForbiddenHost == {" ", ":", "%", "@", "[", "=", ",", ";", "+", "&"}

NoUrl == [ok |-> FALSE, scheme |-> "", hasHost |-> FALSE, host |-> <<>>,
          path |-> <<>>, hasQuery |-> FALSE, query |-> <<>>,
          hasFrag |-> FALSE, frag |-> <<>>]

\* leading and trailing spaces are stripped before parsing
RECURSIVE TrimLeft(_)
TrimLeft(s) == IF s # <<>> /\ s[1] = " " THEN TrimLeft(Tail(s)) ELSE s

RECURSIVE TrimRight(_)
TrimRight(s) ==
    IF s # <<>> /\ s[Len(s)] = " " THEN TrimRight(SubSeq(s, 1, Len(s) - 1))
    ELSE s

Trim(s) == TrimRight(TrimLeft(s))

\* a space inside a path, query or fragment is serialized as %20
EncodeSpaces(s) ==
    Flatten([i \in 1..Len(s) |-> IF s[i] = " " THEN <<"%", "2", "0">>
                                 ELSE <<s[i]>>])

RECURSIVE SkipSlashes(_)
SkipSlashes(s) == IF s # <<>> /\ s[1] = "/" THEN SkipSlashes(Tail(s)) ELSE s

\* path, query and fragment of `s`, which starts at the path
PathQueryFrag(s, special) ==
    LET q    == FirstIn(s, {"?"}, 1)
        h    == FirstIn(s, {"#"}, 1)
        pEnd == IF q < h THEN q ELSE h
        p    == EncodeSpaces(SubSeq(s, 1, pEnd - 1))
    IN  [path     |-> IF special /\ p = <<>> THEN <<"/">> ELSE p,
         hasQuery |-> q < h,
         query    |-> IF q < h THEN EncodeSpaces(SubSeq(s, q + 1, h - 1))
                      ELSE <<>>,
         hasFrag  |-> h <= Len(s),
         frag     |-> EncodeSpaces(From(s, h + 1))]

\* a URL with an authority: the host is checked and lower-cased; a special
\* scheme needs a host
WithHost(scheme, host, rest) ==
    IF \/ (scheme \in SpecialSchemes /\ host = <<>>)
       \/ \E i \in 1..Len(host) : host[i] \in ForbiddenHost
    THEN NoUrl
    ELSE [ok |-> TRUE, scheme |-> scheme, hasHost |-> TRUE,
          host |-> LowerStr(host), path |-> rest.path,
          hasQuery |-> rest.hasQuery, query |-> rest.query,
          hasFrag |-> rest.hasFrag, frag |-> rest.frag]

\* the authority of `s` ends before index aEnd
AuthorityTo(scheme, s, aEnd) ==
    WithHost(scheme, SubSeq(s, 1, aEnd - 1),
             PathQueryFrag(From(s, aEnd), scheme \in SpecialSchemes))

\* `s` starts at the authority (after the slashes); scheme is lower-case
AfterSlashes(scheme, s) ==
    AuthorityTo(scheme, s, FirstIn(s, {"/", "?", "#"}, 1))

\* a URL without authority: its path is opaque and keeps its spaces
Opaque(scheme, rest, r) ==
    [ok |-> TRUE, scheme |-> scheme, hasHost |-> FALSE, host |-> <<>>,
     path |-> SubSeq(rest, 1, FirstIn(rest, {"?", "#"}, 1) - 1),
     hasQuery |-> r.hasQuery, query |-> r.query,
     hasFrag |-> r.hasFrag, frag |-> r.frag]

\* what follows "scheme:"; a special scheme ignores how many slashes
AfterScheme(scheme, rest) ==
    IF scheme \in SpecialSchemes
    THEN AfterSlashes(scheme, SkipSlashes(rest))
    ELSE IF StartsWith(rest, <<"/", "/">>)
    THEN AfterSlashes(scheme, From(rest, 3))
    ELSE Opaque(scheme, rest, PathQueryFrag(rest, FALSE))

\* an input that starts with "scheme:"
ParseAbsolute(s) == AfterScheme(Lower(s[1]), From(s, 3))

HasScheme(s) == Len(s) >= 2 /\ s[1] \in SchemeWords /\ s[2] = ":"

\* a trimmed input without base
ParseTrimmed(s) == IF HasScheme(s) THEN ParseAbsolute(s) ELSE NoUrl

\* new URL(input): fails (ok = FALSE) where the constructor throws
ParseUrl(input) == ParseTrimmed(Trim(input))

\* the base's components where the reference has none: r is the
\* reference's own path, query and fragment
Merge(s, b, r, keepPath, keepQuery) ==
    [ok |-> TRUE, scheme |-> b.scheme, hasHost |-> TRUE, host |-> b.host,
     path |-> IF keepPath THEN b.path ELSE r.path,
     hasQuery |-> IF keepQuery THEN b.hasQuery ELSE r.hasQuery,
     query |-> IF keepQuery THEN b.query ELSE r.query,
     hasFrag |-> r.hasFrag, frag |-> r.frag]

\* a relative reference resolved against the parsed base b (a special URL)
ParseRelative(s, b) ==
    IF StartsWith(s, <<"/", "/">>)
    THEN AfterSlashes(b.scheme, SkipSlashes(s))
    ELSE Merge(s, b,
               PathQueryFrag(IF s # <<>> /\ s[1] \in {"/", "?", "#"}
                             THEN s ELSE <<"/">> \o s, TRUE),
               s = <<>> \/ s[1] \in {"?", "#"},
               s = <<>> \/ s[1] = "#")

\* a trimmed input against a parsed base
ResolveTrimmed(s, b) ==
    IF ~b.ok THEN NoUrl
    ELSE IF HasScheme(s) THEN ParseAbsolute(s)
    ELSE IF b.scheme \in SpecialSchemes THEN ParseRelative(s, b)
    ELSE NoUrl

\* new URL(input, base): an invalid base throws whatever the input is
ParseUrlBase(input, base) == ResolveTrimmed(Trim(input), ParseUrl(base))

\* url.search and url.hash: empty when the component is empty
Search(u) == IF u.hasQuery /\ u.query # <<>> THEN <<"?">> \o u.query ELSE <<>>
Hash(u)   == IF u.hasFrag /\ u.frag # <<>> THEN <<"#">> \o u.frag ELSE <<>>

\* url.toString() / url.href
Href(u) ==
    <<u.scheme, ":">>
        \o (IF u.hasHost THEN <<"/", "/">> \o u.host ELSE <<>>)
        \o u.path
        \o (IF u.hasQuery THEN <<"?">> \o u.query ELSE <<>>)
        \o (IF u.hasFrag THEN <<"#">> \o u.frag ELSE <<>>)

\* url.origin: "null" for a scheme that is not special
Origin(u) ==
    IF u.scheme \in SpecialSchemes
    THEN <<u.scheme, ":", "/", "/">> \o u.host
    ELSE <<"null">>

---------------------------------------------------------------------------
(* Cookie strings: the three regular expressions of index.js:73-76, and    *)
(* the rewrite of one cookie.                                              *)

\* index of the first lexeme at or after i that is not a space
RECURSIVE SkipSpaces(_, _)
SkipSpaces(s, i) ==
    IF i <= Len(s) /\ s[i] = " " THEN SkipSpaces(s, i + 1) ELSE i

\* whether /;\s*<word>/i (with "=" after it when needEq) matches at index i
MatchAttrAt(s, i, word, needEq) ==
    /\ i <= Len(s)
    /\ s[i] = ";"
    /\ LET j == SkipSpaces(s, i + 1)
       IN  /\ j <= Len(s)
           /\ Lower(s[j]) = word
           /\ needEq => (j + 1 <= Len(s) /\ s[j + 1] = "=")

\* index where the regular expression first matches, or 0
RECURSIVE FirstMatch(_, _, _, _)
FirstMatch(s, i, word, needEq) ==
    IF i > Len(s) THEN 0
    ELSE IF MatchAttrAt(s, i, word, needEq) THEN i
    ELSE FirstMatch(s, i + 1, word, needEq)

\* regex.test(c)
RegexTest(s, word, needEq) == FirstMatch(s, 1, word, needEq) # 0

\* c.replace(/;\s*Domain=[^;]*/i, `; Domain=${host}`): the first match only
ReplaceDomain(c, host) ==
    LET i == FirstMatch(c, 1, "domain", TRUE)
    IN  IF i = 0 THEN c
        ELSE SubSeq(c, 1, i - 1)
                 \o <<";", " ", "Domain", "=">> \o host
                 \o From(c, FirstIn(c, {";"}, i + 1))

\* if (!/;\s*SameSite=/i.test(c)) c += "; SameSite=None"
AddSameSite(c) ==
    IF ~RegexTest(c, "samesite", TRUE)
    THEN c \o <<";", " ", "SameSite", "=", "None">> ELSE c

\* if (!/;\s*Secure/i.test(c)) c += "; Secure"
AddSecure(c) ==
    IF ~RegexTest(c, "secure", FALSE) THEN c \o <<";", " ", "Secure">> ELSE c

\* a plausible slip: Secure is never appended
RewriteCookieNoSecure(c, host) == AddSameSite(ReplaceDomain(c, host))

\* the callback of setCookies.map, index.js:71-78
RewriteCookie(c, host) == AddSecure(AddSameSite(ReplaceDomain(c, host)))

---------------------------------------------------------------------------
(* Response headers: a function from lower-case header names (as Node      *)
(* gives them in proxyRes.headers) to values.  The value of "set-cookie"   *)
(* is an array of cookie strings, every other value is one string.         *)

Has(h, k) == k \in DOMAIN h

\* delete h[k]
Delete(h, k) == [n \in (DOMAIN h) \ {k} |-> h[n]]

\* h[k] = v
Put(h, k, v) == [n \in (DOMAIN h) \cup {k} |-> IF n = k THEN v ELSE h[n]]

NoHeaders == [n \in {} |-> <<>>]

\* a plausible slip: the report-only policy is forgotten
StripHeadersNoReportOnly(h) ==
    Delete(Delete(h, "content-security-policy"), "x-frame-options")

\* index.js:50-52
StripHeaders(h) ==
    Delete(Delete(Delete(h, "content-security-policy"),
                  "content-security-policy-report-only"),
           "x-frame-options")

ProxyUrlPrefix == <<"/", "proxy", "?", "url", "=">>

\* new URL(loc, req._targetOrigin || undefined)
Resolve(loc, base) ==
    IF base = <<>> THEN ParseUrl(loc) ELSE ParseUrlBase(loc, base)

\* a plausible slip: the absolute URL goes into the query unescaped
SetLocationUnescaped(h, absolute) ==
    IF ~absolute.ok THEN h
    ELSE Put(h, "location", ProxyUrlPrefix \o Href(absolute))

\* index.js:58-64: the catch leaves the header as it is
SetLocation(h, absolute) ==
    IF ~absolute.ok THEN h
    ELSE Put(h, "location",
             ProxyUrlPrefix \o encodeURIComponent(Href(absolute)))

\* index.js:55-65; base is req._targetOrigin (<<>> when it is undefined)
RewriteLocation(h, base) ==
    IF ~Has(h, "location") \/ h["location"] = <<>> THEN h
    ELSE SetLocation(h, Resolve(h["location"], base))

\* index.js:68-79
RewriteSetCookies(h, host) ==
    IF ~Has(h, "set-cookie") THEN h
    ELSE Put(h, "set-cookie",
             [i \in 1..Len(h["set-cookie"]) |->
                 RewriteCookie(h["set-cookie"][i], host)])

\* the proxyRes hook of index.js: what it leaves in proxyRes.headers
ProxyResIndex(h, r) ==
    RewriteSetCookies(RewriteLocation(StripHeaders(h), r.targetOrigin),
                      r.headers["host"])

\* part_000:47-56
SetLocationPart000(h, r, locUrl) ==
    IF ~locUrl.ok THEN h
    ELSE Put(h, "location",
             r.protocol \o <<":", "/", "/">> \o r.headers["host"]
                 \o <<"/", "proxy", "?", "target", "=">>
                 \o encodeURIComponent(Href(locUrl)))

\* the proxyRes hook of part_000: only an absolute Location is rewritten,
\* to <self origin>/proxy?target=<escaped>; cookies are forwarded as-is
ProxyResPart000(h, r) ==
    IF ~Has(h, "location") \/ h["location"] = <<>> THEN h
    ELSE SetLocationPart000(h, r, ParseUrl(h["location"]))

---------------------------------------------------------------------------
(* Target resolution.                                                      *)

ProxyLocal  == <<"http", ":", "/", "/", "proxy", ".", "local">>
Placeholder == <<"http", ":", "/", "/", "placeholder">>

\* a plausible slip: the "." before the entry is forgotten
allowedHostNoDot(hostname) ==
    IF ~ALLOWLIST.configured THEN TRUE
    ELSE \E i \in 1..Len(ALLOWLIST.hosts) :
            \/ ALLOWLIST.hosts[i] = hostname
            \/ EndsWith(hostname, ALLOWLIST.hosts[i])

\* index.js:23-26
allowedHost(hostname) ==
    IF ~ALLOWLIST.configured THEN TRUE
    ELSE \E i \in 1..Len(ALLOWLIST.hosts) :
            \/ ALLOWLIST.hosts[i] = hostname
            \/ EndsWith(hostname, <<".">> \o ALLOWLIST.hosts[i])

\* index.js:102-107 on raw = u.searchParams.get("url")
TargetOf(raw) ==
    IF ~raw.present \/ raw.val = <<>> THEN NoUrl ELSE ParseUrl(raw.val)

\* index.js:99-108; NoUrl models the null it returns
parseTargetFromReq(fullUrl, base) ==
    TargetOf(searchParamsGet(ParseUrlBase(fullUrl, base).query, <<"url">>))

\* t || null
OrNull(t) ==
    IF ~t.present \/ t.val = <<>> THEN [present |-> FALSE, val |-> <<>>]
    ELSE t

\* part_000:61-65; an absent value models the null it returns
getTargetUrl(reqUrl) ==
    OrNull(searchParamsGet(ParseUrlBase(reqUrl, Placeholder).query,
                           <<"target">>))

\* targetUrl.pathname + targetUrl.search + targetUrl.hash
UpstreamPath(t) == t.path \o Search(t) \o Hash(t)

---------------------------------------------------------------------------
(* The inputs of the model: what clients and upstreams send.               *)

ExampleCom == <<"example", ".", "com">>
ProxyHost  == <<"proxy", ".", "local">>
Https      == <<"https", ":", "/", "/">>

\* values of the target parameter, before the client escapes them
TargetValues ==
    { Https \o ExampleCom \o <<"/", "x">>,
      Https \o <<"sub", ".">> \o ExampleCom \o <<"/">>,
      Https \o <<"evil", ".">> \o ExampleCom
            \o <<".", "attacker", ".", "net", "/", "x">>,
      Https \o <<"not", "example", ".", "com">>,
      <<"HTTPS", ":", "/", "/", "Example", ".", "com", "/", "a", " ", "b",
        "?", "q", "=", "1", "#", "f">>,
      <<"wss", ":", "/", "/", "echo", ".", "example", "/", "?", "v", "=",
        "10">>,
      <<"mailto", ":", "x">>,
      <<"data", ":", "text", "/", "plain", ",", "x">>,
      <<"not", " ", "a", " ", "url">>,
      Https,
      <<>> }

ParamName == IF variant = "index" THEN "url" ELSE "target"

\* request targets: /proxy with the parameter absent, or /proxy?<name>=<v>
RequestUrls ==
    { <<"/", "proxy">> }
        \cup { <<"/", "proxy", "?", ParamName, "=">> \o encodeURIComponent(v) :
                 v \in TargetValues }

\* request headers of the two kinds of client: a browser on the proxy's
\* page, and a bare client that sends only Host
BrowserHeaders ==
    [n \in {"host", "origin", "referer", "user-agent"} |->
        CASE n = "host"    -> ProxyHost
          [] n = "origin"  -> Https \o ProxyHost
          [] n = "referer" -> Https \o ProxyHost \o <<"/">>
          [] OTHER         -> <<"Firefox">>]

BareHeaders == [n \in {"host"} |-> ProxyHost]

ClientHeaders == {BrowserHeaders, BareHeaders}

\* attributes an upstream puts on a cookie, in the order it writes them
CookieAttrs ==
    << <<";", " ", "Domain", "=">> \o ExampleCom,
       <<";", "DOMAIN", "=", ".">> \o ExampleCom,
       <<";", " ", "SameSite", "=", "Lax">>,
       <<";", " ", "Secure">>,
       <<";", " ", "Secure", "x", "=", "1">>,
       <<";", " ", "Path", "=", "/">>,
       <<";", " ", "HttpOnly">> >>

\* the attributes numbered in S, from the one numbered `first` on
RECURSIVE AttrString(_, _)
AttrString(S, first) ==
    IF S = {} THEN <<>>
    ELSE CookieAttrs[first]
            \o AttrString(S \ {first},
                          IF S = {first} THEN first
                          ELSE CHOOSE i \in S \ {first} :
                                  \A k \in S \ {first} : i <= k)

\* the cookie string sid=abc with the attributes numbered in S
CookieWith(S) ==
    <<"sid", "=", "abc">>
        \o (IF S = {} THEN <<>>
            ELSE AttrString(S, CHOOSE i \in S : \A k \in S : i <= k))

\* upstream cookie strings: name=value and up to MaxAttrs attributes
Cookies ==
    { CookieWith(S) : S \in { T \in SUBSET (1..Len(CookieAttrs)) :
                                Cardinality(T) <= MaxAttrs } }

\* Set-Cookie arrays: one cookie, or a bare cookie and one more
SetCookieArrays ==
    { <<c>> : c \in Cookies }
        \cup { <<<<"t", "=", "1">>, CookieWith(S)>> :
                 S \in { T \in SUBSET (1..Len(CookieAttrs)) :
                            Cardinality(T) <= 1 } }

\* Location values: absolute, relative in every form, and malformed
Locations ==
    { Https \o ExampleCom \o <<"/", "login">>,
      Https \o <<"Example", ".", "com">>,
      <<"https", ":", "/", "/", "other", ".", "net", "/", "a", " ", "b",
        "?", "r", "=", "1", "&", "s", "=", "x", "+", "y", "#", "top">>,
      Https \o ExampleCom \o <<"/", "p", "%", "2", "0", "q", ",", "r">>,
      <<"/", "login", "?", "next", "=", "/", "home">>,
      <<"login">>,
      <<"?", "page", "=", "2">>,
      <<"/", "/", "cdn", ".", "example", ".", "com", "/", "x">>,
      <<"mailto", ":", "x">>,
      Https,
      Https \o <<"exa", " ", "mple", ".", "com", "/">>,
      Https \o ExampleCom \o <<":", "bad", "/">> }

SecurityHeaders == {"content-security-policy",
                    "content-security-policy-report-only",
                    "x-frame-options"}

\* a response's single-valued headers, by which security headers it has
PlainHeaders(sec) ==
    [n \in sec \cup {"content-type", "cache-control"} |->
        CASE n = "content-type"  -> <<"text", "/", "html">>
          [] n = "cache-control" -> <<"no-store">>
          [] n = "x-frame-options" -> <<"DENY">>
          [] OTHER -> <<"default-src", " ", "'self'">>]

\* the upstream responses: every set of security headers, and with all of
\* them every Location and every Set-Cookie array, apart and together
Responses ==
    { [status |-> 200, headers |-> PlainHeaders(sec)] :
        sec \in SUBSET SecurityHeaders }
      \cup { [status |-> 302,
              headers |-> Put(PlainHeaders(SecurityHeaders), "location", l)] :
               l \in Locations }
      \cup { [status |-> 200,
              headers |-> Put(PlainHeaders(SecurityHeaders), "set-cookie", a)] :
               a \in SetCookieArrays }
      \cup { [status |-> 302,
              headers |-> Put(Put(PlainHeaders({}), "location", l),
                              "set-cookie", a)] :
               l \in {<<"/", "home">>, Https},
               a \in {<<<<"sid", "=", "abc">>>>} }

\* the body the upstream streams, in chunks
UpBody == <<"chunk1", "chunk2">>

\* values of /go's u parameter (already decoded by Express)
GoValues ==
    { Https \o ExampleCom \o <<"/", "x">>,
      <<"HTTPS", ":", "/", "/", "Example", ".", "com", "/", "x">>,
      Https \o <<"maps", ".", "example", "/", "at", ",", "51", ",", "0">>,
      Https \o <<"other", ".", "net">>,
      <<"not", " ", "a", " ", "url">>,
      <<>> }

---------------------------------------------------------------------------
(* State of one exchange.                                                  *)

NoReq == [kind |-> "none", originalUrl |-> <<>>, url |-> <<>>,
          headers |-> NoHeaders, protocol |-> <<>>,
          targetOrigin |-> <<>>, proto |-> <<>>]

\* the response before anything is written; on an upgrade `res` is the
\* client socket and only ended / destroyed apply
NoRes == [status |-> 0, headersSent |-> FALSE, headers |-> NoHeaders,
          body |-> <<>>, ended |-> FALSE, destroyed |-> FALSE]

NoUpstream == [called |-> "none", target |-> <<>>, path |-> <<>>,
               headers |-> NoHeaders, sent |-> FALSE]

NoUpRes == [status |-> 0, headers |-> NoHeaders]

NoJar == [recent |-> <<>>, visits |-> 0, last |-> <<>>, fresh |-> FALSE]

\* res.status(code).send(text): Express writes head and body and ends
Send(r, code, text) ==
    [r EXCEPT !.status = code, !.headersSent = TRUE,
              !.body = <<text>>, !.ended = TRUE]

\* res.cookie(name, value, {sameSite: "Lax", maxAge}): one more Set-Cookie
Cookie(r, name, value) ==
    LET c   == <<name, "=">> \o encodeURIComponent(value)
                   \o <<";", " ", "Max-Age", "=", "n", ";", " ", "Path", "=",
                        "/", ";", " ", "SameSite", "=", "Lax">>
        old == IF Has(r.headers, "set-cookie") THEN r.headers["set-cookie"]
               ELSE <<>>
    IN  [r EXCEPT !.headers = Put(r.headers, "set-cookie", Append(old, c))]

\* res.redirect(url): 302 with a Location
Redirect(r, url) ==
    [r EXCEPT !.status = 302, !.headersSent = TRUE,
              !.headers = Put(r.headers, "location", url),
              !.ended = TRUE]

\* Express removes the mount path from req.url inside app.use("/proxy")
Mounted(url) ==
    LET rest == From(url, 3)
    IN  IF rest # <<>> /\ rest[1] = "/" THEN rest ELSE <<"/">> \o rest

\* the request as the server receives it
Inbound(kind, url, hdrs) ==
    [kind |-> kind, originalUrl |-> url,
     url |-> IF kind = "http" THEN Mounted(url) ELSE url,
     headers |-> hdrs, protocol |-> <<"http">>,
     targetOrigin |-> <<>>, proto |-> <<>>]

---------------------------------------------------------------------------
(* The route handlers, each as the state it leaves behind.                 *)

Answered(r, response) ==
    [pc |-> "done", req |-> r, res |-> response, upstream |-> NoUpstream]

\* index.js:120-137 / part_000:84-104: remember the target, rewrite
\* req.url and hand the request to proxy.web
Forward(r, targetUrl, withContext) ==
    LET r2 == [r EXCEPT
                 !.targetOrigin = IF withContext THEN Origin(targetUrl) ELSE @,
                 !.proto = IF withContext THEN r.protocol ELSE @,
                 !.url = UpstreamPath(targetUrl)]
    IN  [pc |-> "web", req |-> r2,
         res |-> Cookie(NoRes, "last_target", Origin(targetUrl)),
         upstream |-> [called |-> "web", target |-> Origin(targetUrl),
                       path |-> r2.url, headers |-> r.headers,
                       sent |-> FALSE]]

\* a plausible slip: the last_target cookie is set before the host check
RouteIndexCookieFirst(r, targetUrl) ==
    IF ~targetUrl.ok
    THEN Answered(r, Send(NoRes, 400, "Missing or invalid ?url="))
    ELSE IF ~allowedHost(targetUrl.host)
    THEN Answered(r, Send(Cookie(NoRes, "last_target", Origin(targetUrl)),
                          403, "Target host not allowed."))
    ELSE Forward(r, targetUrl, TRUE)

\* index.js:114-137 once targetUrl is parsed
RouteIndex(r, targetUrl) ==
    IF ~targetUrl.ok
    THEN Answered(r, Send(NoRes, 400, "Missing or invalid ?url="))
    ELSE IF ~allowedHost(targetUrl.host)
    THEN Answered(r, Send(NoRes, 403, "Target host not allowed."))
    ELSE Forward(r, targetUrl, TRUE)

\* app.use("/proxy") of index.js:112-138
ProxyIndex(r) == RouteIndex(r, parseTargetFromReq(r.url, ProxyLocal))

\* part_000:76-104 once targetStr is there
RouteTarget(r, targetUrl) ==
    IF ~targetUrl.ok
    THEN Answered(r, Send(NoRes, 400, "Invalid target URL"))
    ELSE Forward(r, targetUrl, FALSE)

\* part_000:70-104
RoutePart000(r, targetStr) ==
    IF ~targetStr.present
    THEN Answered(r, Send(NoRes, 400, "Missing ?target=<url>"))
    ELSE RouteTarget(r, ParseUrl(targetStr.val))

\* app.use("/proxy") of part_000:69-107
ProxyPart000(r) == RoutePart000(r, getTargetUrl(r.url))

\* socket.destroy()
Destroyed(r) ==
    [pc |-> "done", req |-> r, res |-> [NoRes EXCEPT !.destroyed = TRUE],
     upstream |-> NoUpstream]

\* rewrite req.url and hand the socket to proxy.ws
ForwardWs(r, targetUrl, withContext) ==
    LET r2 == [r EXCEPT
                 !.targetOrigin = IF withContext THEN Origin(targetUrl) ELSE @,
                 !.url = UpstreamPath(targetUrl)]
    IN  [pc |-> "ws", req |-> r2, res |-> NoRes,
         upstream |-> [called |-> "ws", target |-> Origin(targetUrl),
                       path |-> r2.url, headers |-> r.headers,
                       sent |-> FALSE]]

\* a plausible slip: the upgrade path forgets the allowlist
UpgradeRouteNoAllowlist(r, targetUrl) ==
    IF ~targetUrl.ok THEN Destroyed(r)
    ELSE ForwardWs(r, targetUrl, TRUE)

\* index.js:145-155 once targetUrl is parsed
UpgradeRoute(r, targetUrl) ==
    IF ~targetUrl.ok THEN Destroyed(r)
    ELSE IF ~allowedHost(targetUrl.host) THEN Destroyed(r)
    ELSE ForwardWs(r, targetUrl, TRUE)

\* server.on("upgrade") of index.js:143-156
UpgradeIndex(r) == UpgradeRoute(r, parseTargetFromReq(r.url, ProxyLocal))

\* part_000:119-125; a throw of new URL lands in the catch
UpgradeTarget(r, targetUrl) ==
    IF ~targetUrl.ok THEN Destroyed(r)
    ELSE ForwardWs(r, targetUrl, FALSE)

\* part_000:113-125 once req.url is parsed
UpgradeParsed(r, reqUrl, targetStr) ==
    IF ~reqUrl.ok THEN Destroyed(r)
    ELSE IF ~targetStr.present \/ targetStr.val = <<>> THEN Destroyed(r)
    ELSE UpgradeTarget(r, ParseUrl(targetStr.val))

\* part_000:113-114 on the parsed req.url
UpgradeQuery(r, reqUrl) ==
    UpgradeParsed(r, reqUrl, searchParamsGet(reqUrl.query, <<"target">>))

\* server.on("upgrade") of part_000:111-130; every throw lands in the
\* catch, which destroys the socket
UpgradePart000(r) == UpgradeQuery(r, ParseUrlBase(r.url, Placeholder))

DefaultUserAgent == <<"Mozilla/5.0">>

\* the proxyReq hook of index.js:83-96 on the outgoing headers
ProxyReqHook(h, r) ==
    LET upstreamOrigin == r.targetOrigin
    IN  IF upstreamOrigin = <<>> THEN h
        ELSE LET h1 == Put(Put(h, "origin", upstreamOrigin),
                           "referer", upstreamOrigin \o <<"/">>)
             IN  IF ~Has(r.headers, "user-agent")
                    \/ r.headers["user-agent"] = <<>>
                 THEN Put(h1, "user-agent", DefaultUserAgent)
                 ELSE h1

\* http-proxy writes to the client every header the hook left (and
\* res.writeHead(502, ...) in the "error" hook): a header of the same name
\* set earlier is replaced.  http-proxy's autoRewrite pass (index.js:136)
\* runs between the hook and this on redirects; it changes only a
\* Location whose host is the target's, so never one the hook has
\* rewritten to /proxy?url=..., and is left out.
WriteHeaders(r, status, h) ==
    [r EXCEPT !.status = status, !.headersSent = TRUE,
              !.headers = [n \in (DOMAIN r.headers) \cup (DOMAIN h) |->
                              IF n \in DOMAIN h THEN h[n] ELSE r.headers[n]]]

\* the proxy "error" hook on an HTTP response, index.js:37-45 and
\* part_000:26-32: the same statements
ErrorHook(r) ==
    LET r1 == IF ~r.headersSent
              THEN WriteHeaders(r, 502,
                       [n \in {"content-type"} |-> <<"text", "/", "plain">>])
              ELSE r
    IN  [r1 EXCEPT !.body = Append(r1.body, "Proxy error"), !.ended = TRUE]

\* current.slice(0, 8)
RecentKept == 8

\* res.redirect("/") without touching the cookie
GoHome ==
    [redirect |-> <<"/">>, set |-> FALSE, recent |-> <<>>,
     fresh |-> FALSE, last |-> <<>>]

\* index.js:164-171 / part_000:137-141 for the entry `entry`: add it in
\* front unless the list has it, keep 8, set the cookie and redirect
Remember(entry, current, prefix) ==
    [redirect |-> prefix \o encodeURIComponent(entry), set |-> TRUE,
     recent |-> Join(Slice0(IF ~Includes(current, entry)
                            THEN <<entry>> \o current ELSE current,
                            RecentKept), ","),
     fresh |-> ~Includes(current, entry), last |-> entry]

\* index.js:161-174 once u is parsed
GoParsed(u, abs, cookie) ==
    IF u = <<>> \/ ~abs.ok THEN GoHome
    ELSE Remember(Href(abs), FilterNonEmpty(Split(cookie, ",")),
                  ProxyUrlPrefix)

\* the /go handler of index.js:159-175 as [redirect, set, recent, fresh,
\* last]: where it redirects, whether it sets the cookie and to what, and
\* whether and what it added to the list
GoIndex(u, cookie) == GoParsed(u, ParseUrl(u), cookie)

\* the /go handler of part_000:133-142: u is not parsed
GoPart000(u, cookie) ==
    IF u = <<>> THEN GoHome
    ELSE Remember(u, FilterNonEmpty(Split(cookie, ",")),
                  <<"/", "proxy", "?", "target", "=">>)

---------------------------------------------------------------------------
(* The state machine.                                                      *)

NoAllowlist == [configured |-> FALSE, hosts |-> <<>>]

Init ==
    /\ variant \in {"index", "part_000"}
    /\ ALLOWLIST \in {NoAllowlist, [configured |-> TRUE, hosts |-> <<ExampleCom>>]}
    /\ variant = "part_000" => ALLOWLIST = NoAllowlist
    /\ pc = "idle"
    /\ req = NoReq
    /\ res = NoRes
    /\ upstream = NoUpstream
    /\ upRes = NoUpRes
    /\ jar = NoJar

Enter(out) ==
    /\ pc' = out.pc
    /\ req' = out.req
    /\ res' = out.res
    /\ upstream' = out.upstream
    /\ UNCHANGED <<variant, ALLOWLIST, upRes, jar>>

\* an HTTP request to /proxy runs the route handler to its end
HttpProxy ==
    /\ pc = "idle"
    /\ \E url \in RequestUrls, hdrs \in ClientHeaders :
         Enter(IF variant = "index"
               THEN ProxyIndex(Inbound("http", url, hdrs))
               ELSE ProxyPart000(Inbound("http", url, hdrs)))

\* an Upgrade request runs the "upgrade" listener to its end
Upgrade ==
    /\ pc = "idle"
    /\ \E url \in RequestUrls, hdrs \in ClientHeaders :
         Enter(IF variant = "index"
               THEN UpgradeIndex(Inbound("upgrade", url, hdrs))
               ELSE UpgradePart000(Inbound("upgrade", url, hdrs)))

\* http-proxy emits "proxyReq" before it sends an HTTP request upstream;
\* only index.js listens
ProxyReq ==
    /\ pc = "web"
    /\ pc' = "web_sent"
    /\ upstream' = [upstream EXCEPT
                      !.headers = IF variant = "index"
                                  THEN ProxyReqHook(@, req) ELSE @,
                      !.sent = TRUE]
    /\ UNCHANGED <<variant, ALLOWLIST, req, res, upRes, jar>>

\* for a WebSocket http-proxy emits "proxyReqWs", never "proxyReq":
\* neither file listens, and the handshake goes upstream as the client
\* sent it
ProxyReqWs ==
    /\ pc = "ws"
    /\ pc' = "ws_sent"
    /\ upstream' = [upstream EXCEPT !.sent = TRUE]
    /\ UNCHANGED <<variant, ALLOWLIST, req, res, upRes, jar>>

\* the upstream answers: the "proxyRes" hook runs on its headers, then
\* http-proxy writes status and headers to the client
ProxyRes ==
    /\ pc = "web_sent"
    /\ \E resp \in Responses :
         /\ upRes' = resp
         /\ res' = WriteHeaders(res, resp.status,
                      IF variant = "index" THEN ProxyResIndex(resp.headers, req)
                      ELSE ProxyResPart000(resp.headers, req))
    /\ pc' = "streaming"
    /\ UNCHANGED <<variant, ALLOWLIST, req, upstream, jar>>

\* one more chunk of the upstream body is piped to the client
StreamChunk ==
    /\ pc = "streaming"
    /\ Len(res.body) < Len(UpBody)
    /\ res' = [res EXCEPT !.body = Append(@, UpBody[Len(@) + 1])]
    /\ UNCHANGED <<variant, ALLOWLIST, pc, req, upstream, upRes, jar>>

\* the upstream body ends
StreamEnd ==
    /\ pc = "streaming"
    /\ Len(res.body) = Len(UpBody)
    /\ res' = [res EXCEPT !.ended = TRUE]
    /\ pc' = "done"
    /\ UNCHANGED <<variant, ALLOWLIST, req, upstream, upRes, jar>>

\* the upstream accepts the WebSocket handshake
WsOpen ==
    /\ pc = "ws_sent"
    /\ pc' = "ws_open"
    /\ UNCHANGED <<variant, ALLOWLIST, req, res, upstream, upRes, jar>>

\* either side closes the WebSocket
WsClose ==
    /\ pc = "ws_open"
    /\ res' = [res EXCEPT !.ended = TRUE]
    /\ pc' = "done"
    /\ UNCHANGED <<variant, ALLOWLIST, req, upstream, upRes, jar>>

\* the upstream fails: http-proxy emits "error" with the response, or on
\* a WebSocket with the client socket.  A socket has no headersSent and no
\* writeHead, so the hook throws there: index.js catches it and http-proxy
\* ends the socket, part_000 lets it escape and the process dies.
ProxyError ==
    /\ pc \in {"web_sent", "streaming", "ws_sent", "ws_open"}
    /\ IF req.kind = "http"
       THEN /\ res' = ErrorHook(res)
            /\ pc' = "failed"
       ELSE IF variant = "index"
       THEN /\ res' = [res EXCEPT !.ended = TRUE]
            /\ pc' = "failed"
       ELSE /\ res' = res
            /\ pc' = "crashed"
    /\ UNCHANGED <<variant, ALLOWLIST, req, upstream, upRes, jar>>

\* the exchange is over; the server keeps nothing of it
Finish ==
    /\ pc \in {"done", "failed"}
    /\ pc' = "idle"
    /\ req' = NoReq
    /\ res' = NoRes
    /\ upstream' = NoUpstream
    /\ upRes' = NoUpRes
    /\ UNCHANGED <<variant, ALLOWLIST, jar>>

\* the response of /go and the cookie the browser then holds
Went(u, out) ==
    /\ res' = Redirect(IF out.set
                       THEN [NoRes EXCEPT !.headers =
                               Put(NoHeaders, "set-cookie",
                                   <<<<"recent_targets", "=">>
                                       \o encodeURIComponent(out.recent)>>)]
                       ELSE NoRes,
                       out.redirect)
    /\ req' = [Inbound("go", <<"/", "go">>, BrowserHeaders) EXCEPT !.url = u]
    /\ jar' = [recent |-> IF out.set THEN encodeURIComponent(out.recent)
                          ELSE jar.recent,
               visits |-> jar.visits + 1,
               last |-> out.last, fresh |-> out.fresh]

\* GET /go?u=<u> with the browser's recent_targets cookie; the browser
\* stores the cookie the response sets.  res.cookie escapes the value and
\* cookie-parser unescapes it.
Go ==
    /\ pc = "idle"
    /\ jar.visits < MaxGo
    /\ \E u \in GoValues :
         Went(u, IF variant = "index"
                 THEN GoIndex(u, PercentDecode(jar.recent))
                 ELSE GoPart000(u, PercentDecode(jar.recent)))
    /\ pc' = "done"
    /\ UNCHANGED <<variant, ALLOWLIST, upstream, upRes>>

Next ==
    \/ HttpProxy
    \/ Upgrade
    \/ ProxyReq
    \/ ProxyReqWs
    \/ ProxyRes
    \/ StreamChunk
    \/ StreamEnd
    \/ WsOpen
    \/ WsClose
    \/ ProxyError
    \/ Finish

Spec == Init /\ [][Next]_vars

NextGo == Go \/ Finish

SpecGo == Init /\ [][NextGo]_vars
---------------------------------------------------------------------------
(* What the claims speak of, stated apart from the code's own operators.   *)

\* the upstream has answered this exchange and its headers went to the client
Answering == upRes.status # 0

\* a cookie string as a browser reads it: the pieces between ";", the
\* first being name=value and every other an attribute
Attrs(c) == Tail(Split(c, ";"))

\* an attribute's name, lower-case and without surrounding spaces
AttrName(a) == LowerStr(Trim(SubSeq(a, 1, FirstIn(a, {"="}, 1) - 1)))

\* an attribute's value without surrounding spaces
AttrValue(a) == Trim(From(a, FirstIn(a, {"="}, 1) + 1))

\* among the attributes attrs, one is named `name`
HasAttr(attrs, name) == \E i \in 1..Len(attrs) : AttrName(attrs[i]) = <<name>>

\* among the attributes attrs, one has a name that begins with `name`
HasAttrBeginning(attrs, name) ==
    \E i \in 1..Len(attrs) :
        AttrName(attrs[i]) # <<>> /\ AttrName(attrs[i])[1] = name

\* positions of the Domain attributes among attrs
DomainAt(attrs) == {i \in 1..Len(attrs) : AttrName(attrs[i]) = <<"domain">>}

Min(S) == CHOOSE m \in S : \A n \in S : m <= n

\* the cookies the upstream sent and the cookies the client got
SentCookies == upRes.headers["set-cookie"]
GotCookies  == res.headers["set-cookie"]

\* host names an allowlist admits: an entry, or anything followed by "."
\* and an entry
Admitted(hostname) ==
    \E i \in 1..Len(ALLOWLIST.hosts) :
        \/ hostname = ALLOWLIST.hosts[i]
        \/ \E k \in 1..Len(hostname) :
              /\ hostname[k] = "."
              /\ From(hostname, k + 1) = ALLOWLIST.hosts[i]

\* the value of the target parameter of the request as the client sent it
SentParam ==
    searchParamsGet(ParseUrlBase(req.originalUrl, ProxyLocal).query,
                    <<ParamName>>)

\* the URL that value parses to (ok = FALSE when it is absent or unparsable)
SentTarget ==
    IF SentParam.present /\ SentParam.val # <<>> THEN ParseUrl(SentParam.val)
    ELSE NoUrl

\* a request whose handler has run
Handled(kind) == req.kind = kind /\ pc # "idle"

\* the answer of a rejected HTTP request: a short message, and nothing else
\* touched
Rejected(code) ==
    /\ res.status = code
    /\ res.body \in { <<"Missing or invalid ?url=">>,
                      <<"Target host not allowed.">>,
                      <<"Missing ?target=<url>">>,
                      <<"Invalid target URL">> }
    /\ res.ended
    /\ req.url = Mounted(req.originalUrl)
    /\ ~Has(res.headers, "set-cookie")
    /\ upstream.called = "none"

---------------------------------------------------------------------------
\* a cookie with the attributes got is bound to the host: it has a Domain
\* attribute, none that names another host, and SameSite and Secure
Bound(got, host) ==
    /\ DomainAt(got) # {}
    /\ \A d \in DomainAt(got) : AttrValue(got[d]) = host
    /\ HasAttr(got, "samesite")
    /\ HasAttr(got, "secure")

Rewritten(sent, got, host) ==
    /\ HasAttr(got, "samesite")
    /\ HasAttrBeginning(got, "secure")
    /\ Len(got) >= Len(sent)
    /\ DomainAt(sent) = {} =>
          /\ DomainAt(got) = {}
          /\ SubSeq(got, 1, Len(sent)) = sent
    /\ DomainAt(sent) # {} =>
          /\ Min(DomainAt(sent)) \in DomainAt(got)
          /\ AttrValue(got[Min(DomainAt(sent))]) = host
          /\ \A k \in (1..Len(sent)) \ {Min(DomainAt(sent))} :
                got[k] = sent[k]

---------------------------------------------------------------------------
---------------------------------------------------------------------------
\* the headers of the upstream other than the three security headers,
\* Location and Set-Cookie reach the client unchanged
OthersUnchanged ==
    \A k \in (DOMAIN upRes.headers)
                \ (SecurityHeaders \cup {"location", "set-cookie"}) :
        Has(res.headers, k) /\ res.headers[k] = upRes.headers[k]

---------------------------------------------------------------------------
\* what the request whose target parameter reads as t must have got
RejectedUnless(t) ==
    /\ ~t.ok => Rejected(400)
    /\ (t.ok /\ ALLOWLIST.configured /\ ~Admitted(t.host)) => Rejected(403)

---------------------------------------------------------------------------
\* what the client has received of the body is what the upstream sent
OnlyUpstreamBytes ==
    /\ Len(res.body) <= Len(UpBody)
    /\ \A i \in 1..Len(res.body) : res.body[i] = UpBody[i]

\* C5 (as claimed): after the "error" hook has run on an HTTP exchange,
\* if no headers had been sent (the upstream had not answered) the client
\* has status 502 and the body "Proxy error"; if the headers had been sent
\* the status is still the upstream's and the client has received no body
\* bytes but the upstream's, the connection being ended.
C5_ErrorAfterHeadersOnlyEnds ==
    (pc = "failed" /\ req.kind = "http") =>
        /\ res.ended
        /\ IF Answering
           THEN res.status = upRes.status /\ OnlyUpstreamBytes
           ELSE res.status = 502 /\ res.body = <<"Proxy error">>

---------------------------------------------------------------------------
\* the URL the request of index.js resolves to
ResolvedIndex == parseTargetFromReq(req.originalUrl, ProxyLocal)

\* C6 (as claimed): in index.js, whatever has been sent upstream for a
\* target with a host, an HTTP request or a WebSocket handshake, carries
\* Origin equal to the resolved target's origin and Referer equal to that
\* origin (with its "/").
C6_OriginSentUpstream ==
    (variant = "index" /\ upstream.sent /\ ResolvedIndex.hasHost) =>
        /\ Has(upstream.headers, "origin")
        /\ upstream.headers["origin"] = Origin(ResolvedIndex)
        /\ Has(upstream.headers, "referer")
        /\ upstream.headers["referer"] \in
              {Origin(ResolvedIndex), Origin(ResolvedIndex) \o <<"/">>}

---------------------------------------------------------------------------
\* C7 (as claimed): an HTTP request whose target value is not an absolute
\* URL with a scheme and a host is answered 400 and nothing is handed to
\* the dispatcher.
C7_HostlessRejected ==
    (Handled("http") /\ ~(SentTarget.ok /\ SentTarget.hasHost
                            /\ SentTarget.host # <<>>)) =>
        /\ res.status = 400
        /\ upstream.called = "none"

---------------------------------------------------------------------------
\* a request of index.js that the allowlist turned away
TurnedAway ==
    IF req.kind = "http" THEN res.status = 403 /\ upstream.called = "none"
    ELSE res.destroyed /\ upstream.called = "none"

\* C8: in index.js a request whose target parses is turned away (403 on
\* HTTP, socket destroyed on upgrade) exactly when an allowlist is
\* configured and the host is neither an entry nor something ending in
\* "." and an entry; with the allowlist {example.com}, example.com and
\* sub.example.com pass, evil.example.com.attacker.net and notexample.com
\* are turned away; without an allowlist every host passes.
C8_Allowlist ==
    (variant = "index" /\ req.kind \in {"http", "upgrade"} /\ pc # "idle"
        /\ ResolvedIndex.ok) =>
        /\ TurnedAway <=> (ALLOWLIST.configured /\ ~Admitted(ResolvedIndex.host))
        /\ ~TurnedAway => /\ upstream.called # "none"
                          /\ upstream.target = Origin(ResolvedIndex)
        /\ ALLOWLIST = [configured |-> TRUE, hosts |-> <<ExampleCom>>] =>
              /\ ResolvedIndex.host \in
                    {ExampleCom, <<"sub", ".">> \o ExampleCom} => ~TurnedAway
              /\ ResolvedIndex.host \in
                    { <<"evil", ".">> \o ExampleCom
                          \o <<".", "attacker", ".", "net">>,
                      <<"not", "example", ".", "com">> } => TurnedAway

\* C8 witness: with {example.com} configured, an upgrade for
\* notexample.com had its socket destroyed
C8_Witness ==
    /\ variant = "index"
    /\ ALLOWLIST.configured
    /\ Handled("upgrade")
    /\ ResolvedIndex.ok
    /\ ResolvedIndex.host = <<"not", "example", ".", "com">>
    /\ res.destroyed
    /\ upstream.called = "none"

---------------------------------------------------------------------------
\* the resolver's verdict on a request whose target parameter reads as t
Resolvable(t) ==
    /\ t.ok
    /\ ALLOWLIST.configured => Admitted(t.host)

\* what holds of an exchange whose target parameter reads as t
DispatchedOnlyIfResolved(t) ==
    /\ upstream.called # "none" =>
          /\ Resolvable(t)
          /\ upstream.target = Origin(t)
          /\ upstream.called = (IF req.kind = "http" THEN "web" ELSE "ws")
    /\ (Handled("upgrade") /\ ~Resolvable(t)) =>
          /\ res.destroyed
          /\ upstream.called = "none"
          /\ pc = "done"

---------------------------------------------------------------------------
\* the recent_targets cookie the browser holds, split on ","
RecentList == FilterNonEmpty(Split(PercentDecode(jar.recent), ","))

\* C10 (as claimed): after any sequence of /go requests the list in the
\* recent_targets cookie has at most 8 entries and no entry twice, and a
\* URL visited for the first time is its first entry.
C10_RecentList ==
    /\ Len(RecentList) <= RecentKept
    /\ \A i, j \in 1..Len(RecentList) :
          RecentList[i] = RecentList[j] => i = j
    /\ jar.fresh => (RecentList # <<>> /\ RecentList[1] = jar.last)

=============================================================================
